---------------------------- MODULE Spec2Model ----------------------------
(***************************************************************************)
(* Model of the geolocation client of locator.go: the process-wide         *)
(* tunables, the constructor New, and the standard client's Get.           *)
(*                                                                         *)
(* Strings that the code inspects character by character (URLs, API keys)  *)
(* are sequences of chunks.  A chunk is either a run of letters ("https",  *)
(* "geolocate") or one single character (":", "/", "?", "1", ...), so the  *)
(* character classes net/url looks at are the classes of the chunks.       *)
(***************************************************************************)
EXTENDS Integers, Sequences, FiniteSets, TLC

VARIABLES RequestTimeout, IgnoreIPMethod, UserAgent, newRet, heap, call

vars == <<RequestTimeout, IgnoreIPMethod, UserAgent, newRet, heap, call>>

(***************************************************************************)
(* Bounds of the model.                                                    *)
(***************************************************************************)
MaxTail == 2        \* chunks appended to a base endpoint
MaxKeyLen == 1      \* chunks of an arbitrary API key

(***************************************************************************)
(* Strings as sequences of chunks.                                         *)
(***************************************************************************)
Letters == {"a", "abc", "h", "http", "https", "urn", "not", "url", "key",
            "location", "services", "mozilla", "com", "v", "geolocate",
            "www", "googleapis", "geolocation", "api", "lbs", "yandex", "net"}

Digits == {"0", "1", "2", "3", "4", "5", "6", "7", "8", "9"}

HexChars == Digits \cup {"a", "b", "c", "d", "e", "f", "A", "B", "C", "D", "E", "F"}

SeqsUpTo(S, n) == UNION {[1..k -> S] : k \in 0..n}

Min(S) == CHOOSE i \in S : \A j \in S : i <= j

Max(S) == CHOOSE i \in S : \A j \in S : i >= j

Positions(s, c) == {i \in 1..Len(s) : s[i] = c}

MinOrZero(S) == IF S = {} THEN 0 ELSE Min(S)

MaxOrZero(S) == IF S = {} THEN 0 ELSE Max(S)

IndexOf(s, c) == MinOrZero(Positions(s, c))

LastIndexOf(s, c) == MaxOrZero(Positions(s, c))

Count(s, c) == Cardinality(Positions(s, c))

HasPrefix(s, p) == Len(s) >= Len(p) /\ SubSeq(s, 1, Len(p)) = p

Drop(s, n) == SubSeq(s, n + 1, Len(s))

\* strings.Cut(s, c): the text before and after the first c.
Before(s, i) == IF i = 0 THEN s ELSE SubSeq(s, 1, i - 1)

After(s, i) == IF i = 0 THEN <<>> ELSE Drop(s, i)

CutBefore(s, c) == Before(s, IndexOf(s, c))

CutAfter(s, c) == After(s, IndexOf(s, c))

(***************************************************************************)
(* The service URLs.                                                       *)
(***************************************************************************)
Mozilla == <<"https", ":", "/", "/", "location", ".", "services", ".", "mozilla",
             ".", "com", "/", "v", "1", "/", "geolocate">>

Google == <<"https", ":", "/", "/", "www", ".", "googleapis", ".", "com", "/",
            "geolocation", "/", "v", "1", "/", "geolocate">>

Yandex == <<"http", ":", "/", "/", "api", ".", "lbs", ".", "yandex", ".", "net",
            "/", "geolocation">>

(***************************************************************************)
(* net/url, as far as New and http.NewRequest use it.                      *)
(***************************************************************************)
\* url.QueryEscape: unreserved characters stay, a space becomes "+", every
\* other character becomes "%" and its two hexadecimal digits.
Unreserved == Letters \cup Digits \cup {"-", "_", ".", "~"}

EscapeChunk(c) ==
    IF c \in Unreserved THEN <<c>>
    ELSE CASE c = " " -> <<"+">>
           [] c = "&" -> <<"%", "2", "6">>
           [] c = "=" -> <<"%", "3", "D">>
           [] c = "?" -> <<"%", "3", "F">>
           [] c = "#" -> <<"%", "2", "3">>
           [] c = "/" -> <<"%", "2", "F">>
           [] c = ":" -> <<"%", "3", "A">>
           [] c = "%" -> <<"%", "2", "5">>
           [] c = "+" -> <<"%", "2", "B">>

RECURSIVE QueryEscape(_)
QueryEscape(s) ==
    IF s = <<>> THEN <<>> ELSE EscapeChunk(Head(s)) \o QueryEscape(Tail(s))

\* getScheme: the index of the first chunk that cannot belong to a scheme.
SchemeTailChars == Digits \cup {"+", "-", "."}

SchemeEnd(s) ==
    MinOrZero({i \in 1..Len(s) : ~(s[i] \in Letters \/ (i > 1 /\ s[i] \in SchemeTailChars))})

SchemeAt(s, n) ==
    IF n # 0 /\ s[n] = ":"
    THEN IF n = 1 THEN [ok |-> FALSE, scheme |-> <<>>, rest |-> <<>>]
         ELSE [ok |-> TRUE, scheme |-> SubSeq(s, 1, n - 1), rest |-> Drop(s, n)]
    ELSE [ok |-> TRUE, scheme |-> <<>>, rest |-> s]

getScheme(s) == SchemeAt(s, SchemeEnd(s))

\* unescape: every "%" must be followed by two hexadecimal digits.
ValidEscapes(s) ==
    \A i \in 1..Len(s) :
        s[i] = "%" => (i + 2 <= Len(s) /\ s[i+1] \in HexChars /\ s[i+2] \in HexChars)

\* unescape in host mode: an escape must encode a non-ASCII byte.
HighHexChars == HexChars \ {"0", "1", "2", "3", "4", "5", "6", "7"}

ValidHostEscapes(s) ==
    \A i \in 1..Len(s) :
        s[i] = "%" => (i + 2 <= Len(s) /\ s[i+1] \in HighHexChars /\ s[i+2] \in HexChars)

\* The characters a host may hold unescaped.
HostChars ==
    Letters \cup Digits \cup HexChars
        \cup {"-", "_", ".", "~", "!", "$", "&", "(", ")", "*", "+", ",", ";", "=", ":",
              "[", "]", "<", ">", "%"}

HostChar(c) == c \in HostChars

\* validOptionalPort: empty, or ":" followed by digits only.
validOptionalPort(p) ==
    p = <<>> \/ (p[1] = ":" /\ \A i \in 2..Len(p) : p[i] \in Digits)

\* parseAuthority/parseHost (no userinfo, no IPv6 literal in the modelled inputs).
PortOf(host, i) == IF i = 0 THEN <<>> ELSE Drop(host, i - 1)

parseHost(host) ==
    /\ validOptionalPort(PortOf(host, LastIndexOf(host, ":")))
    /\ \A i \in 1..Len(host) : HostChar(host[i])
    /\ ValidHostEscapes(host)

NoURL == [ok |-> FALSE, Scheme |-> <<>>, Opaque |-> <<>>, Host |-> <<>>, Path |-> <<>>,
          RawQuery |-> <<>>, Fragment |-> <<>>]

\* url.parse, after the scheme: a single trailing "?" forces an empty query,
\* otherwise the query starts after the first "?".
ForceQuery(r) == Len(r) > 0 /\ r[Len(r)] = "?" /\ Count(r, "?") = 1

BeforeQuery(r) == IF ForceQuery(r) THEN SubSeq(r, 1, Len(r) - 1) ELSE CutBefore(r, "?")

QueryOf(r) == IF ForceQuery(r) THEN <<>> ELSE CutAfter(r, "?")

URLOf(scheme, opaque, host, path, query) ==
    [ok |-> TRUE, Scheme |-> scheme, Opaque |-> opaque, Host |-> host, Path |-> path,
     RawQuery |-> query, Fragment |-> <<>>]

\* url.parse: the authority ("//host") and the path.
hostAndPath(scheme, host, path, query) ==
    IF parseHost(host) /\ ValidEscapes(path)
    THEN URLOf(scheme, <<>>, host, path, query)
    ELSE NoURL

parseAuthority(scheme, auth, query) ==
    hostAndPath(scheme, CutBefore(auth, "/"), Drop(auth, Len(CutBefore(auth, "/"))), query)

\* url.parse: what follows the scheme and precedes the query.
parseRest(scheme, rest, query, viaRequest) ==
    IF ~HasPrefix(rest, <<"/">>) /\ scheme # <<>>
    THEN URLOf(scheme, rest, <<>>, <<>>, query)
    ELSE IF ~HasPrefix(rest, <<"/">>) /\ viaRequest
    THEN NoURL
    ELSE IF ~HasPrefix(rest, <<"/">>) /\ IndexOf(CutBefore(rest, "/"), ":") # 0
    THEN NoURL
    ELSE IF (scheme # <<>> \/ (~viaRequest /\ ~HasPrefix(rest, <<"/", "/", "/">>)))
            /\ HasPrefix(rest, <<"/", "/">>)
    THEN parseAuthority(scheme, Drop(rest, 2), query)
    ELSE IF ValidEscapes(rest)
    THEN URLOf(scheme, <<>>, <<>>, rest, query)
    ELSE NoURL

\* url.parse, once getScheme has split the text.
parseScheme(sch, viaRequest) ==
    IF ~sch.ok THEN NoURL
    ELSE parseRest(sch.scheme, BeforeQuery(sch.rest), QueryOf(sch.rest), viaRequest)

\* url.parse(rawURL, viaRequest)
parse(rawURL, viaRequest) ==
    IF rawURL = <<>> /\ viaRequest THEN NoURL
    ELSE parseScheme(getScheme(rawURL), viaRequest)

\* url.ParseRequestURI: the text is taken as a request target, no fragment is cut.
ParseRequestURI(rawURL) == parse(rawURL, TRUE)

\* url.Parse: the fragment is cut off first.
setFragment(u, frag) ==
    IF ~u.ok \/ ~ValidEscapes(frag) THEN NoURL ELSE [u EXCEPT !.Fragment = frag]

Parse(rawURL) == setFragment(parse(CutBefore(rawURL, "#"), FALSE), CutAfter(rawURL, "#"))

\* A query string holds the pair name=value as one of its "&"-separated parts.
QueryHasPair(q, name, value) ==
    LET target == <<name, "=">> \o value
    IN  \E i \in 1..Len(q) :
            /\ (i = 1 \/ q[i-1] = "&")
            /\ HasPrefix(Drop(q, i - 1), target)
            /\ (i - 1 + Len(target) = Len(q) \/ q[i + Len(target)] = "&")

(***************************************************************************)
(* Errors.  errors.New allocates: two errors are equal only when they come *)
(* from the same allocation, whatever their text.                          *)
(***************************************************************************)
\* http.StatusText
StatusText(code) ==
    CASE code = 200 -> "OK"
      [] code = 201 -> "Created"
      [] code = 204 -> "No Content"
      [] code = 400 -> "Bad Request"
      [] code = 403 -> "Forbidden"
      [] code = 404 -> "Not Found"
      [] code = 418 -> "I'm a teapot"
      [] code = 500 -> "Internal Server Error"
      [] OTHER -> ""

errorsNew(site, text) == [ptr |-> site, text |-> text]

NoError == [ptr |-> "nil", text |-> ""]

ErrBadRequest == errorsNew("locator.go:20", StatusText(400))

ErrForbidden == errorsNew("locator.go:21", StatusText(403))

ErrNotFound == errorsNew("locator.go:22", StatusText(404))

(***************************************************************************)
(* The process-wide tunables.                                              *)
(***************************************************************************)
DefaultRequestTimeout == 30

DefaultUserAgent == "GeoTrack/1.0"

Timeouts == {DefaultRequestTimeout, 5}

UserAgents == {DefaultUserAgent, "probe/2"}

(***************************************************************************)
(* New                                                                     *)
(***************************************************************************)
NoLocator == [type |-> "nil", serviceUrl |-> <<>>, apiKey |-> <<>>, Timeout |-> 0]

NewBase(url, parsed, timeout) ==
    IF ~parsed.ok
    THEN [locator |-> NoLocator, err |-> errorsNew("url.Error", "parse")]
    ELSE [locator |-> [type |-> "base", serviceUrl |-> url, apiKey |-> <<>>,
                       Timeout |-> timeout],
          err |-> NoError]

\* Lines 54-56.
WithKey(serviceUrl, apiKey) ==
    IF apiKey # <<>> THEN serviceUrl \o <<"?", "key", "=">> \o QueryEscape(apiKey)
    ELSE serviceUrl

\* Variant of NewResult: the endpoint is validated with url.Parse.
NewResultLax(serviceUrl, apiKey, timeout) ==
    IF serviceUrl = Yandex
    THEN [locator |-> [type |-> "yandex", serviceUrl |-> <<>>, apiKey |-> apiKey,
                       Timeout |-> timeout],
          err |-> NoError]
    ELSE NewBase(WithKey(serviceUrl, apiKey), Parse(WithKey(serviceUrl, apiKey)), timeout)

\* Lines 46-66: what New returns, the locator it built (NoLocator for nil) and the error.
NewResult(serviceUrl, apiKey, timeout) ==
    IF serviceUrl = Yandex
    THEN [locator |-> [type |-> "yandex", serviceUrl |-> <<>>, apiKey |-> apiKey,
                       Timeout |-> timeout],
          err |-> NoError]
    ELSE NewBase(WithKey(serviceUrl, apiKey), ParseRequestURI(WithKey(serviceUrl, apiKey)),
                 timeout)

\* newRet is the last call of New: its arguments, the RequestTimeout at the time, the
\* locator and the error it returned, and how often it handed a request to an HTTP client.
New(serviceUrl, apiKey) ==
    /\ \E r \in {NewResult(serviceUrl, apiKey, RequestTimeout)} :
          newRet' = [called |-> TRUE, serviceUrl |-> serviceUrl, apiKey |-> apiKey,
                     timeout |-> RequestTimeout, locator |-> r.locator, err |-> r.err,
                     doCalls |-> 0]
    /\ UNCHANGED <<RequestTimeout, IgnoreIPMethod, UserAgent, heap, call>>

(***************************************************************************)
(* Requests.  A Request is passed to Get by value; its Fallbacks field is  *)
(* a pointer: "nil", the address of an object of the caller ("p1", "p2",   *)
(* kept in heap), or "local", the object Get itself allocates.             *)
(***************************************************************************)
CallerAddrs == {"p1", "p2"}

FallbacksOff == [LAC |-> FALSE, IP |-> FALSE]

Deref(ref, h, local) == IF ref = "local" THEN local ELSE h[ref]

\* Variant of OverrideIP: the override is written through the caller's pointer.
OverrideWriteThrough(req, h, ignore) ==
    [req  |-> [req EXCEPT !.ConsiderIp = ~ignore,
                          !.Fallbacks = IF ignore /\ @ = "nil" THEN "local" ELSE @],
     heap |-> IF ignore /\ req.Fallbacks \in CallerAddrs
              THEN [h EXCEPT ![req.Fallbacks] = FallbacksOff] ELSE h]

\* Variant of OverrideIP: ConsiderIp is left as the caller passed it.
OverrideKeepConsiderIp(req, h, ignore) ==
    [req  |-> [req EXCEPT !.Fallbacks = IF ignore THEN "local" ELSE @],
     heap |-> h]

\* Lines 71-77: ConsiderIp is forced, and with IgnoreIPMethod set the copy's
\* Fallbacks pointer is replaced by a newly allocated object.
OverrideIP(req, h, ignore) ==
    [req  |-> [req EXCEPT !.ConsiderIp = ~ignore,
                          !.Fallbacks = IF ignore THEN "local" ELSE @],
     heap |-> h]

\* Lines 78-80.
DefaultRadioType(req) ==
    IF req.RadioType = "" THEN [req EXCEPT !.RadioType = "gsm"] ELSE req

\* Variant of StripIP: the address stays in the copy.
StripKeepIP(req) == [ipAddress |-> req.IPAddress, req |-> req]

\* Lines 81-82: the address is taken out of the copy.
StripIP(req) == [ipAddress |-> req.IPAddress, req |-> [req EXCEPT !.IPAddress = ""]]

\* json.Marshal of a Request: the JSON object, with the Fallbacks pointer followed
\* and the fields that are empty and tagged omitempty left out.
Omitted == [present |-> FALSE, value |-> ""]

Marshal(req, h, local) ==
    [radioType  |-> req.RadioType,
     considerIp |-> req.ConsiderIp,
     ipaddress  |-> IF req.IPAddress = "" THEN Omitted
                    ELSE [present |-> TRUE, value |-> req.IPAddress],
     fallbacks  |-> IF req.Fallbacks = "nil"
                    THEN [present |-> FALSE, lacf |-> FALSE, ipf |-> FALSE]
                    ELSE [present |-> TRUE,
                          lacf |-> Deref(req.Fallbacks, h, local).LAC,
                          ipf  |-> Deref(req.Fallbacks, h, local).IP]]

NoBody == Marshal([RadioType |-> "", ConsiderIp |-> FALSE, IPAddress |-> "", Fallbacks |-> "nil"],
                  <<>>, FallbacksOff)

NoHeader == [set |-> FALSE, value |-> ""]

HeaderSet(v) == [set |-> TRUE, value |-> v]

\* Lines 87-95.
NoRequest == [ok |-> FALSE, Method |-> "", URL |-> NoURL, UserAgent |-> NoHeader,
              ContentType |-> NoHeader, XForwardedFor |-> NoHeader, Body |-> NoBody]

\* http.NewRequest("POST", url, body), the URL already parsed with url.Parse.
NewRequest(u, data) ==
    IF ~u.ok THEN NoRequest
    ELSE [ok |-> TRUE, Method |-> "POST", URL |-> u, UserAgent |-> NoHeader,
          ContentType |-> NoHeader, XForwardedFor |-> NoHeader, Body |-> data]

\* Lines 91-95.
SetHeaders(httpReq, ipAddress, ua) ==
    IF ~httpReq.ok THEN httpReq
    ELSE [httpReq EXCEPT !.UserAgent = HeaderSet(ua),
                         !.ContentType = HeaderSet("application/json"),
                         !.XForwardedFor = IF ipAddress # "" THEN HeaderSet(ipAddress)
                                           ELSE NoHeader]

BuildRequest(serviceUrl, data, ipAddress, ua) ==
    SetHeaders(NewRequest(Parse(serviceUrl), data), ipAddress, ua)

\* What the server side does with one exchange: no response at all (DNS, connect,
\* timeout), or a status and a body that is or is not the JSON of a Response.
NoResponse == [kind |-> "error", status |-> 0, body |-> ""]

ServerReply(status, body) == [kind |-> "response", status |-> status, body |-> body]

\* l.client.Do: a request whose URL has no http(s) scheme or no host fails in the
\* client before anything is written to the network.
Sendable(httpReq) ==
    httpReq.URL.Scheme \in {<<"http">>, <<"https">>} /\ httpReq.URL.Host # <<>>

Do(httpReq, server) == IF Sendable(httpReq) THEN server ELSE NoResponse

\* Variant of MapStatus: the errors of 403 and 404 are exchanged.
MapStatusSwapped(status) ==
    CASE status = 200 -> [decode |-> TRUE, err |-> NoError]
      [] status = 400 -> [decode |-> FALSE, err |-> ErrBadRequest]
      [] status = 403 -> [decode |-> FALSE, err |-> ErrNotFound]
      [] status = 404 -> [decode |-> FALSE, err |-> ErrForbidden]
      [] OTHER -> [decode |-> FALSE, err |-> errorsNew("locator.go:110", StatusText(status))]

\* Variant of MapStatus: every 2xx status counts as success.
MapStatusAny2xx(status) ==
    CASE status \in 200..299 -> [decode |-> TRUE, err |-> NoError]
      [] status = 400 -> [decode |-> FALSE, err |-> ErrBadRequest]
      [] status = 403 -> [decode |-> FALSE, err |-> ErrForbidden]
      [] status = 404 -> [decode |-> FALSE, err |-> ErrNotFound]
      [] OTHER -> [decode |-> FALSE, err |-> errorsNew("locator.go:110", StatusText(status))]

\* Lines 101-111: proceed to decoding, or the error to return.
MapStatus(status) ==
    CASE status = 200 -> [decode |-> TRUE, err |-> NoError]
      [] status = 400 -> [decode |-> FALSE, err |-> ErrBadRequest]
      [] status = 403 -> [decode |-> FALSE, err |-> ErrForbidden]
      [] status = 404 -> [decode |-> FALSE, err |-> ErrNotFound]
      [] OTHER -> [decode |-> FALSE, err |-> errorsNew("locator.go:110", StatusText(status))]

\* json decoding of the response body into a Response.
NilResponse == [nil |-> TRUE, lat |-> 0, lng |-> 0, accuracy |-> 0]

Decode(body) ==
    IF body = "valid"
    THEN [err |-> NoError, response |-> [nil |-> FALSE, lat |-> 15, lng |-> 25, accuracy |-> 10]]
    ELSE [err |-> errorsNew("json", "decode"), response |-> NilResponse]


\* Variant of Exchange: a failed exchange is tried once more.
Retried(reply) ==
    [doCalls |-> IF reply.kind = "error" \/ reply.status # 200 THEN 2 ELSE 1, reply |-> reply]

ExchangeRetry(httpReq, server) == Retried(Do(httpReq, server))

\* Line 97: the request is handed to the HTTP client.
Exchange(httpReq, server) == [doCalls |-> 1, reply |-> Do(httpReq, server)]

\* Variant of ClientTimeout: the global RequestTimeout of the moment.
ClientTimeoutGlobal(locator, globalTimeout) == globalTimeout

\* The timeout l.client.Do works under: the Timeout of the client's own http.Client.
ClientTimeout(locator, globalTimeout) == locator.Timeout

\* Lines 98-118: what Get makes of the reply.  closed tells whether resp.Body.Close
\* was called, decoded whether the body was read by the JSON decoder.
Outcome(reply, m, d) ==
    IF reply.kind = "error"
    THEN [received |-> FALSE, status |-> 0, closed |-> FALSE, decoded |-> FALSE,
          response |-> NilResponse, err |-> errorsNew("transport", "Post")]
    ELSE IF ~m.decode
    THEN [received |-> TRUE, status |-> reply.status, closed |-> FALSE, decoded |-> FALSE,
          response |-> NilResponse, err |-> m.err]
    ELSE [received |-> TRUE, status |-> reply.status, closed |-> TRUE, decoded |-> TRUE,
          response |-> d.response, err |-> d.err]

Finish(reply) == Outcome(reply, MapStatus(reply.status), Decode(reply.body))

NotSent == [received |-> FALSE, status |-> 0, closed |-> FALSE, decoded |-> FALSE,
            response |-> NilResponse, err |-> errorsNew("url.Error", "parse")]

NoRequestArg == [RadioType |-> "", ConsiderIp |-> FALSE, IPAddress |-> "", Fallbacks |-> "nil"]

NoTunables == [RequestTimeout |-> 0, IgnoreIPMethod |-> FALSE, UserAgent |-> ""]

InitHeap == [a \in CallerAddrs |-> IF a = "p1" THEN [LAC |-> TRUE, IP |-> TRUE]
                                               ELSE [LAC |-> FALSE, IP |-> TRUE]]

NoMade == [serviceUrl |-> <<>>, apiKey |-> <<>>, timeout |-> 0]

\* call is the last call of Get as its caller and the network saw it: the client, the
\* call of New that built it (made: its arguments and the RequestTimeout then), the
\* Request passed (arg), the tunables and the caller's objects at the time of the call,
\* the local copy of the request at the end (req), the HTTP request built, how often and
\* under which timeout it was handed to the HTTP client, and what Get returned.
NoCall == [pc |-> "idle", l |-> NoLocator, made |-> NoMade, arg |-> NoRequestArg,
           tun |-> NoTunables,
           heap0 |-> InitHeap, req |-> NoRequestArg, httpReq |-> NoRequest,
           doCalls |-> 0, timeout |-> 0, res |-> NotSent]

Get(l, req, server) ==
    /\ l.type = "base"
    /\ \E o \in {OverrideIP(req, heap, IgnoreIPMethod)} :
       \E st \in {StripIP(DefaultRadioType(o.req))} :
       \E httpReq \in {BuildRequest(l.serviceUrl, Marshal(st.req, o.heap, FallbacksOff),
                                    st.ipAddress, UserAgent)} :
       \E ex \in {Exchange(httpReq, server)} :
          /\ call' = [pc |-> "returned", l |-> l,
                      made |-> [serviceUrl |-> newRet.serviceUrl, apiKey |-> newRet.apiKey,
                                timeout |-> newRet.timeout],
                      arg |-> req,
                      tun |-> [RequestTimeout |-> RequestTimeout,
                               IgnoreIPMethod |-> IgnoreIPMethod,
                               UserAgent |-> UserAgent],
                      heap0 |-> heap, req |-> st.req, httpReq |-> httpReq,
                      doCalls |-> IF httpReq.ok THEN ex.doCalls ELSE 0,
                      timeout |-> IF httpReq.ok THEN ClientTimeout(l, RequestTimeout) ELSE 0,
                      res |-> IF httpReq.ok THEN Finish(ex.reply) ELSE NotSent]
          /\ heap' = o.heap
    /\ UNCHANGED <<RequestTimeout, IgnoreIPMethod, UserAgent, newRet>>

\* The caller assigns to a tunable.
SetRequestTimeout(t) ==
    /\ RequestTimeout' = t
    /\ UNCHANGED <<IgnoreIPMethod, UserAgent, newRet, heap, call>>

SetIgnoreIPMethod(b) ==
    /\ IgnoreIPMethod' = b
    /\ UNCHANGED <<RequestTimeout, UserAgent, newRet, heap, call>>

SetUserAgent(ua) ==
    /\ UserAgent' = ua
    /\ UNCHANGED <<RequestTimeout, IgnoreIPMethod, newRet, heap, call>>

(***************************************************************************)
(* Inputs.                                                                 *)
(***************************************************************************)
NotAUrl == <<"not", " ", "a", " ", "url">>

SampleKey == <<"abc", "1", "2", "3">>

\* An endpoint url.ParseRequestURI accepts and url.Parse rejects: "urn:#%".
BadFragment == <<"urn", ":", "#", "%">>

Requests == [RadioType : {"", "lte"}, ConsiderIp : BOOLEAN,
             IPAddress : {"", "10.0.0.7"}, Fallbacks : {"nil"} \cup CallerAddrs]

StatusCodes == {200, 201, 400, 403, 404, 418, 599}

Servers == {NoResponse, ServerReply(200, "malformed")}
               \cup {ServerReply(c, "valid") : c \in StatusCodes}

\* Endpoints for the URL handling: a base followed by a short arbitrary tail.
Bases == {<<>>, <<"urn", ":">>, <<"http", ":", "/", "/", "h">>, Mozilla, Yandex, NotAUrl}

TailChunks == {"a", "/", "?", "#", " ", "%"}

Endpoints == {b \o t : b \in Bases, t \in SeqsUpTo(TailChunks, MaxTail)}

KeyChunks == {"abc", " ", "&"}

ApiKeys == SeqsUpTo(KeyChunks, MaxKeyLen) \cup {SampleKey}

NoNewRet == [called |-> FALSE, serviceUrl |-> <<>>, apiKey |-> <<>>, timeout |-> 0,
             locator |-> NoLocator, err |-> NoError, doCalls |-> 0]

(***************************************************************************)
(* Spec: the tunables are set at startup, then clients are built and used. *)
(* The caller keeps one locator, the one the last call of New returned.    *)
(***************************************************************************)
Init ==
    /\ RequestTimeout = DefaultRequestTimeout
    /\ IgnoreIPMethod \in BOOLEAN
    /\ UserAgent \in UserAgents
    /\ newRet = NoNewRet
    /\ heap = InitHeap
    /\ call = NoCall

Next ==
    \/ \E e \in {Mozilla, Yandex, NotAUrl, BadFragment} : New(e, SampleKey)
    \/ \E req \in Requests, server \in Servers : Get(newRet.locator, req, server)

Spec == Init /\ [][Next]_vars

(***************************************************************************)
(* SpecConfig: the tunables are assigned to at any time.                   *)
(***************************************************************************)
InitDefault ==
    /\ RequestTimeout = DefaultRequestTimeout
    /\ IgnoreIPMethod = FALSE
    /\ UserAgent = DefaultUserAgent
    /\ newRet = NoNewRet
    /\ heap = InitHeap
    /\ call = NoCall

ConfigRequests == {r \in Requests : r.RadioType = "" /\ r.IPAddress = "" /\ r.Fallbacks # "p2"}

NextConfig ==
    \/ New(Mozilla, <<>>)
    \/ \E t \in Timeouts : SetRequestTimeout(t)
    \/ \E b \in BOOLEAN : SetIgnoreIPMethod(b)
    \/ \E ua \in UserAgents : SetUserAgent(ua)
    \/ \E req \in ConfigRequests : Get(newRet.locator, req, ServerReply(200, "valid"))

SpecConfig == InitDefault /\ [][NextConfig]_vars

(***************************************************************************)
(* SpecURL: clients are built for arbitrary endpoints and keys.            *)
(***************************************************************************)
\* newRet first holds the arguments of the call of New to come.
InitURL ==
    /\ RequestTimeout = DefaultRequestTimeout
    /\ IgnoreIPMethod = FALSE
    /\ UserAgent = DefaultUserAgent
    /\ newRet \in {[NoNewRet EXCEPT !.serviceUrl = e, !.apiKey = k] :
                       e \in Endpoints, k \in ApiKeys}
    /\ heap = InitHeap
    /\ call = NoCall

NextURL ==
    \/ ~newRet.called /\ New(newRet.serviceUrl, newRet.apiKey)
    \/ Get(newRet.locator,
           [RadioType |-> "lte", ConsiderIp |-> TRUE, IPAddress |-> "", Fallbacks |-> "nil"],
           ServerReply(200, "valid"))

SpecURL == InitURL /\ [][NextURL]_vars

(***************************************************************************)
(* The claims.                                                             *)
(***************************************************************************)
Returned == call.pc = "returned"

Built == Returned /\ call.httpReq.ok

Sentinels == {ErrBadRequest, ErrForbidden, ErrNotFound}

\* C1: the IPAddress of the request is never in the JSON body of the HTTP request Get
\* builds, and the X-Forwarded-For header is set exactly when the caller's IPAddress
\* is not empty, and then equals it.
C1_IPOnlyInHeader ==
    Built =>
        /\ call.httpReq.Body.ipaddress.value = ""
        /\ call.httpReq.XForwardedFor.set <=> (call.arg.IPAddress # "")
        /\ call.arg.IPAddress # "" => call.httpReq.XForwardedFor.value = call.arg.IPAddress

C1_Witness ==
    Built /\ call.res.received /\ call.arg.IPAddress = "10.0.0.7"
          /\ call.httpReq.XForwardedFor = HeaderSet("10.0.0.7")

\* C2 (as claimed): whenever Get received a response, its body has been closed when
\* Get returns, whatever the status.
C2_BodyClosedOnEveryPath == Returned /\ call.res.received => call.res.closed

\* C3: 400, 403 and 404 give exactly ErrBadRequest, ErrForbidden and ErrNotFound, each
\* with a nil Response, and the three sentinels are pairwise different errors.
C3_SentinelPerStatus ==
    /\ ErrBadRequest # ErrForbidden /\ ErrBadRequest # ErrNotFound /\ ErrForbidden # ErrNotFound
    /\ Returned /\ call.res.received =>
        /\ call.res.status = 400 => call.res.err = ErrBadRequest /\ call.res.response.nil
        /\ call.res.status = 403 => call.res.err = ErrForbidden /\ call.res.response.nil
        /\ call.res.status = 404 => call.res.err = ErrNotFound /\ call.res.response.nil

C3_Witness ==
    Returned /\ call.res.received /\ call.res.status = 403 /\ call.res.err = ErrForbidden

\* C4: every status other than 200, 400, 403 and 404 gives a nil Response and an error
\* that is none of the sentinels and whose text is the reason phrase of the status (the
\* empty text for a status without one); the body is not decoded.
C4_OtherStatusOpaqueError ==
    Returned /\ call.res.received /\ call.res.status \notin {200, 400, 403, 404} =>
        /\ call.res.response.nil
        /\ call.res.err # NoError
        /\ call.res.err \notin Sentinels
        /\ call.res.err.text = StatusText(call.res.status)
        /\ call.res.status = 201 => call.res.err.text = "Created"
        /\ call.res.status = 418 => call.res.err.text = "I'm a teapot"
        /\ call.res.status = 599 => call.res.err.text = ""
        /\ ~call.res.decoded

C4_Witness ==
    Returned /\ call.res.received /\ call.res.status = 201 /\ call.res.err.text = "Created"

\* C5: the body's ConsiderIp is the negation of IgnoreIPMethod whatever the caller
\* passed; with IgnoreIPMethod set the body's fallbacks are both false, without it
\* they are the caller's (absent for a nil pointer).
C5_ConsiderIpAndFallbacks ==
    Built =>
        /\ call.httpReq.Body.considerIp = ~call.tun.IgnoreIPMethod
        /\ call.tun.IgnoreIPMethod =>
              call.httpReq.Body.fallbacks = [present |-> TRUE, lacf |-> FALSE, ipf |-> FALSE]
        /\ ~call.tun.IgnoreIPMethod /\ call.arg.Fallbacks = "nil" =>
              ~call.httpReq.Body.fallbacks.present
        /\ ~call.tun.IgnoreIPMethod /\ call.arg.Fallbacks # "nil" =>
              call.httpReq.Body.fallbacks =
                  [present |-> TRUE, lacf |-> call.heap0[call.arg.Fallbacks].LAC,
                   ipf |-> call.heap0[call.arg.Fallbacks].IP]

C5_Witness ==
    Built /\ call.tun.IgnoreIPMethod /\ call.arg.ConsiderIp /\ call.arg.Fallbacks = "p1"
          /\ call.heap0["p1"].LAC /\ ~call.httpReq.Body.fallbacks.lacf

C7_KeyInQuery ==
    /\ Built /\ Sendable(call.httpReq) /\ call.made.apiKey # <<>> =>
          QueryHasPair(call.httpReq.URL.RawQuery, "key", QueryEscape(call.made.apiKey))
    /\ newRet.called /\ newRet.locator.type = "base" /\ newRet.apiKey = <<>> =>
          newRet.locator.serviceUrl = newRet.serviceUrl

\* C8: New returns an error and no client exactly when the endpoint is not Yandex and,
\* with the key appended, is not accepted as a request URI; otherwise a client and no
\* error.  It hands no request to an HTTP client.
C8_ClientOrError ==
    newRet.called =>
        /\ (newRet.locator = NoLocator) <=> (newRet.err # NoError)
        /\ (newRet.err # NoError) <=>
              (newRet.serviceUrl # Yandex
                 /\ ~ParseRequestURI(WithKey(newRet.serviceUrl, newRet.apiKey)).ok)
        /\ newRet.serviceUrl = NotAUrl => newRet.locator = NoLocator
        /\ newRet.serviceUrl = Yandex => newRet.locator.type = "yandex"
        /\ newRet.serviceUrl = Mozilla => newRet.locator.type = "base"
        /\ newRet.doCalls = 0

C8_Witness ==
    newRet.called /\ newRet.serviceUrl = NotAUrl /\ newRet.apiKey = <<"&">>
                  /\ newRet.locator = NoLocator /\ newRet.err # NoError

\* C9: a call of Get hands its request to the HTTP client once when the request could be
\* built and never otherwise, also after a transport failure, a status other than 200
\* or a decoding failure; every failure is returned as the error of that call.
C9_OneExchange ==
    Returned =>
        /\ call.doCalls = IF call.httpReq.ok THEN 1 ELSE 0
        /\ (call.res.err = NoError) <=>
              (call.res.received /\ call.res.status = 200 /\ ~call.res.response.nil)
        /\ call.res.err # NoError => call.res.response.nil

C9_Witness ==
    Returned /\ call.res.received /\ call.res.status = 404 /\ call.doCalls = 1
             /\ call.res.err = ErrNotFound

\* C10: a step of Get changes neither the locator, nor the tunables, nor the objects of
\* the caller its request points to.
C10_GetWritesNothingShared ==
    [][call' # call =>
          /\ heap' = heap
          /\ newRet' = newRet
          /\ RequestTimeout' = RequestTimeout
          /\ IgnoreIPMethod' = IgnoreIPMethod
          /\ UserAgent' = UserAgent
          /\ call'.heap0 = heap]_vars

C10_Witness ==
    Built /\ call.tun.IgnoreIPMethod /\ call.arg.Fallbacks = "p1"
          /\ call.req.Fallbacks = "local" /\ heap["p1"] = [LAC |-> TRUE, IP |-> TRUE]
          /\ call.httpReq.Body.fallbacks.present /\ ~call.httpReq.Body.fallbacks.ipf

=============================================================================
